---- MODULE Spec2Model ----
(***************************************************************************)
(* Model of genaccessor.Run (src/genaccessor/genaccessor.go): the scan of  *)
(* a parsed directory for struct fields tagged getter/setter, the naming   *)
(* of the accessors, the collection and rendering of the imports, and the  *)
(* hand-over of one formatted unit per package to the caller's writer.     *)
(*                                                                         *)
(* Strings are Go strings: sequences of bytes.  An ASCII byte is written   *)
(* as the one-character string of its character, a byte >= 0x80 as its two *)
(* hexadecimal digits ("C3", "A9").                                        *)
(***************************************************************************)
EXTENDS Integers, Sequences, FiniteSets, TLC

(***************************************************************************)
(* Bytes, runes and the functions of strings / unicode / path the code     *)
(* calls.                                                                  *)
(***************************************************************************)
LowerSeq == <<"a","b","c","d","e","f","g","h","i","j","k","l","m",
              "n","o","p","q","r","s","t","u","v","w","x","y","z">>

UpperSeq == <<"A","B","C","D","E","F","G","H","I","J","K","L","M",
              "N","O","P","Q","R","S","T","U","V","W","X","Y","Z">>

DigitSeq == <<"0","1","2","3","4","5","6","7","8","9">>

\* Bytes >= 0x80 of the model's alphabet, in increasing order:
\* C3 A9 is e-acute, C3 89 is E-acute, EF BF BD is U+FFFD.
HighSeq == <<"89","A9","BD","BF","C3","EF">>

\* Every byte of the model in increasing byte order (Go compares strings
\* bytewise).
ByteOrder ==
    <<"\"", "*", ",", "-", ".", "/">> \o DigitSeq \o UpperSeq
        \o <<"[", "]", "_">> \o LowerSeq \o HighSeq

Range(s) == {s[i] : i \in 1..Len(s)}

Lowers == Range(LowerSeq)

Uppers == Range(UpperSeq)

Digits == Range(DigitSeq)

HighBytes == Range(HighSeq)

\* Continuation bytes (0x80..0xBF).
ContBytes == {"89","A9","BD","BF"}

Ord(b) == CHOOSE i \in 1..Len(ByteOrder) : ByteOrder[i] = b

\* s < t, bytewise.
RECURSIVE StrLess(_, _)
StrLess(s, t) ==
    IF t = <<>> THEN FALSE
    ELSE IF s = <<>> THEN TRUE
    ELSE IF s[1] # t[1] THEN Ord(s[1]) < Ord(t[1])
    ELSE StrLess(Tail(s), Tail(t))

\* utf8.RuneError, U+FFFD, as its encoding.
RuneError == <<"EF","BF","BD">>

\* Width in bytes of the rune that Go decodes at byte i of s (1 for an
\* invalid byte).
RuneWidth(s, i) ==
    IF s[i] \notin HighBytes THEN 1
    ELSE IF s[i] = "C3" /\ i + 1 <= Len(s) /\ s[i+1] \in ContBytes THEN 2
    ELSE IF s[i] = "EF" /\ i + 2 <= Len(s)
            /\ s[i+1] \in ContBytes /\ s[i+2] \in ContBytes THEN 3
    ELSE 1

\* The rune decoded at byte i of s, as its UTF-8 encoding; an invalid byte
\* decodes to RuneError.
DecodeRune(s, i) ==
    IF s[i] \in HighBytes /\ RuneWidth(s, i) = 1 THEN RuneError
    ELSE SubSeq(s, i, i + RuneWidth(s, i) - 1)

unicode_IsLower(r) == r \in {<<c>> : c \in Lowers} \cup {<<"C3","A9">>}

unicode_IsLetter(r) ==
    r \in {<<c>> : c \in Lowers \cup Uppers}
            \cup {<<"C3","A9">>, <<"C3","89">>}

unicode_ToUpper(r) ==
    IF Len(r) = 1 /\ r[1] \in Lowers
    THEN <<UpperSeq[CHOOSE i \in 1..26 : LowerSeq[i] = r[1]]>>
    ELSE IF r = <<"C3","A9">> THEN <<"C3","89">>
    ELSE r

\* strings.IndexFunc(s, f) for f = "not unicode.IsLower", from byte i on:
\* the byte index (1-based) of the first rune that is not lower case, 0 for
\* Go's -1.
RECURSIVE IndexNotLower(_, _)
IndexNotLower(s, i) ==
    IF i > Len(s) THEN 0
    ELSE IF ~unicode_IsLower(DecodeRune(s, i)) THEN i
    ELSE IndexNotLower(s, i + RuneWidth(s, i))

\* strings.ToUpper(s) from byte i on: strings.Map(unicode.ToUpper, s), which
\* writes U+FFFD for every invalid byte.
RECURSIVE ToUpperFrom(_, _)
ToUpperFrom(s, i) ==
    IF i > Len(s) THEN <<>>
    ELSE unicode_ToUpper(DecodeRune(s, i)) \o ToUpperFrom(s, i + RuneWidth(s, i))

strings_ToUpper(s) == ToUpperFrom(s, 1)

\* strings.Split(s, sep) for a one-byte separator.
RECURSIVE strings_Split(_, _)
strings_Split(s, sep) ==
    IF \A i \in 1..Len(s) : s[i] # sep THEN <<s>>
    ELSE LET k == CHOOSE i \in 1..Len(s) :
                     s[i] = sep /\ \A j \in 1..(i-1) : s[j] # sep
         IN  <<SubSeq(s, 1, k - 1)>> \o strings_Split(SubSeq(s, k + 1, Len(s)), sep)

\* strings.SplitN(s, sep, 2) for a one-byte separator.
strings_SplitN2(s, sep) ==
    IF \A i \in 1..Len(s) : s[i] # sep THEN <<s>>
    ELSE LET k == CHOOSE i \in 1..Len(s) :
                     s[i] = sep /\ \A j \in 1..(i-1) : s[j] # sep
         IN  <<SubSeq(s, 1, k - 1), SubSeq(s, k + 1, Len(s))>>

strings_Contains(s, b) == \E i \in 1..Len(s) : s[i] = b

\* strings.Trim(s, cutset) for a one-byte cutset.
RECURSIVE strings_Trim(_, _)
strings_Trim(s, b) ==
    IF s = <<>> THEN s
    ELSE IF s[1] = b THEN strings_Trim(Tail(s), b)
    ELSE IF s[Len(s)] = b THEN strings_Trim(SubSeq(s, 1, Len(s) - 1), b)
    ELSE s

\* path.Base(p).
RECURSIVE path_Base(_)
path_Base(p) ==
    IF p = <<>> THEN <<".">>
    ELSE IF p[Len(p)] = "/"
         THEN IF Len(p) = 1 THEN <<"/">> ELSE path_Base(SubSeq(p, 1, Len(p) - 1))
    ELSE IF strings_Contains(p, "/")
         THEN LET k == CHOOSE i \in 1..Len(p) :
                           p[i] = "/" /\ \A j \in (i+1)..Len(p) : p[j] # "/"
              IN  SubSeq(p, k + 1, Len(p))
    ELSE p

\* strings.FieldsFunc(s, f) for f = "not a letter and not '.'": the maximal
\* runs of runes that are letters or dots.  cur is the run being read.
IsSep(r) == ~unicode_IsLetter(r) /\ r # <<".">>

RECURSIVE FieldsFrom(_, _, _)
FieldsFrom(s, i, cur) ==
    IF i > Len(s) THEN (IF cur = <<>> THEN <<>> ELSE <<cur>>)
    ELSE LET w == RuneWidth(s, i)
         IN  IF IsSep(DecodeRune(s, i))
             THEN (IF cur = <<>> THEN <<>> ELSE <<cur>>) \o FieldsFrom(s, i + w, <<>>)
             ELSE FieldsFrom(s, i + w, cur \o SubSeq(s, i, i + w - 1))

strings_FieldsFunc(s) == FieldsFrom(s, 1, <<>>)

(***************************************************************************)
(* toUpperCamel and the table of generated methods.                        *)
(***************************************************************************)
\* from https://github.com/golang/lint
commonInitialisms ==
    { <<"a","c","l">>, <<"a","p","i">>, <<"a","s","c","i","i">>,
      <<"c","p","u">>, <<"c","s","s">>, <<"d","n","s">>, <<"e","o","f">>,
      <<"g","u","i","d">>, <<"h","t","m","l">>, <<"h","t","t","p">>,
      <<"h","t","t","p","s">>, <<"i","d">>, <<"i","p">>,
      <<"j","s","o","n">>, <<"l","h","s">>, <<"q","p","s">>,
      <<"r","a","m">>, <<"r","h","s">>, <<"r","p","c">>, <<"s","l","a">>,
      <<"s","m","t","p">>, <<"s","q","l">>, <<"s","s","h">>,
      <<"t","c","p">>, <<"t","l","s">>, <<"t","t","l">>, <<"u","d","p">>,
      <<"u","i">>, <<"u","i","d">>, <<"u","u","i","d">>, <<"u","r","i">>,
      <<"u","r","l">>, <<"u","t","f","8">>, <<"v","m">>, <<"x","m","l">>,
      <<"x","m","p","p">>, <<"x","s","r","f">>, <<"x","s","s">> }

toUpperCamel(s) ==
    IF s = <<>> THEN s
    ELSE LET idx == IndexNotLower(s, 1)
             \* 0-based firstNotLowerIndex: s[:n] is SubSeq(s, 1, n)
             firstNotLowerIndex == IF idx = 0 THEN Len(s) ELSE idx - 1
         IN  IF SubSeq(s, 1, firstNotLowerIndex) \in commonInitialisms
             THEN strings_ToUpper(SubSeq(s, 1, firstNotLowerIndex))
                      \o SubSeq(s, firstNotLowerIndex + 1, Len(s))
             ELSE strings_ToUpper(SubSeq(s, 1, 1)) \o SubSeq(s, 2, Len(s))

(***************************************************************************)
(* The parsed input (go/ast) and the accumulators of Run.                  *)
(*   ImportSpec  [Name, Path]    Name is NoName for `import "p"`; Path is  *)
(*                               Path.Value, the quoted literal            *)
(*   Field       [Names, Type, Tag]  Names is empty for an embedded field, *)
(*                               Type is the printed type expression, Tag  *)
(*                               is NoTag (field.Tag == nil) or what       *)
(*                               reflect.StructTag reads for each key      *)
(*   Spec        [Name, Type]    Type is [kind, Fields]                    *)
(*   Decl        [kind, Tok, Specs]                                        *)
(*   File        [Imports, Decls]                                          *)
(*   Package     [Name, Files]   Files maps file names to files            *)
(***************************************************************************)
\* imp.Name == nil (an identifier is never empty).
NoName == <<>>

\* field.Tag == nil; any other tag maps each key of genMethods to
\* [hasTag, value], what tag.Lookup returns for it.
NoTag == [nil |-> TRUE]

\* The result of tag.Lookup for a key the tag does not hold.
Absent == [hasTag |-> FALSE, value |-> <<>>]

Value(v) == [hasTag |-> TRUE, value |-> v]

Tag(getter, setter) == [nil |-> FALSE, getter |-> getter, setter |-> setter]

genMethods == <<"getter", "setter">>

tag_Lookup(tag, tagKey) == tag[tagKey]

Quote(p) == <<"\"">> \o p \o <<"\"">>

\* genMethod.defaultMethodName(fieldName)
defaultMethodName(tagKey, fieldName) ==
    IF tagKey = "getter" THEN toUpperCamel(fieldName)
    ELSE <<"S","e","t">> \o toUpperCamel(fieldName)

\* methodNames with the fault that the default name stays in front of the
\* listed names.
methodNames_KeepDefault(tagKey, methodNamesText, fieldName) ==
    <<defaultMethodName(tagKey, fieldName)>>
        \o (IF Len(methodNamesText) # 0
            THEN strings_Split(methodNamesText, ",") ELSE <<>>)

\* The method names requested by one tag key of one field.
methodNames(tagKey, methodNamesText, fieldName) ==
    IF Len(methodNamesText) # 0
    THEN strings_Split(methodNamesText, ",")
    ELSE <<defaultMethodName(tagKey, fieldName)>>

\* genMethod.tmpl.Execute(body, tmplParam{...}): the method declaration the
\* template of the key renders, by its parts.
tmpl_Execute(tagKey, StructName, MethodName, FieldType, FieldName) ==
    IF tagKey = "getter"
    THEN [Recv |-> [name |-> "m", pointer |-> FALSE, type |-> StructName],
          Name |-> MethodName,
          Params |-> <<>>,
          Results |-> <<FieldType>>,
          Stmt |-> [op |-> "return", recv |-> "m", field |-> FieldName]]
    ELSE [Recv |-> [name |-> "m", pointer |-> TRUE, type |-> StructName],
          Name |-> MethodName,
          Params |-> <<[name |-> "s", type |-> FieldType]>>,
          Results |-> <<>>,
          Stmt |-> [op |-> "assign", recv |-> "m", field |-> FieldName,
                    value |-> "s"]]

\* Whether import spec imp is the one the loop over file.Imports stops at
\* for the qualifier q.
ImportMatches(imp, q) ==
    IF imp.Name = NoName
    THEN path_Base(strings_Trim(imp.Path, "\"")) = q
    ELSE imp.Name = q

\* The import specs appended for one word s of the type text: the first
\* import of the file that matches the part of s before its first dot.
ImportsForWord(s, imports) ==
    LET ss == strings_SplitN2(s, ".")
    IN  IF Len(ss) = 2 /\ \E i \in 1..Len(imports) : ImportMatches(imports[i], ss[1])
        THEN LET k == CHOOSE i \in 1..Len(imports) :
                          /\ ImportMatches(imports[i], ss[1])
                          /\ \A j \in 1..(i-1) : ~ImportMatches(imports[j], ss[1])
             IN  <<imports[k]>>
        ELSE <<>>

RECURSIVE ImportsForWords(_, _)
ImportsForWords(words, imports) ==
    IF words = <<>> THEN <<>>
    ELSE ImportsForWord(Head(words), imports) \o ImportsForWords(Tail(words), imports)

\* The import specs one tag key of a field appends to importPackages.
ImportsForType(fieldTypeText, imports) ==
    ImportsForWords(strings_FieldsFunc(fieldTypeText), imports)

RECURSIVE ExecuteAll(_, _, _, _, _)
ExecuteAll(tagKey, StructName, names, FieldType, FieldName) ==
    IF names = <<>> THEN <<>>
    ELSE <<tmpl_Execute(tagKey, StructName, Head(names), FieldType, FieldName)>>
             \o ExecuteAll(tagKey, StructName, Tail(names), FieldType, FieldName)

\* field.Names[0].Name
FieldNameOf(field) == field.Names[1]

\* The body of `for _, genMethod := range genMethods` for the keys k.. of one
\* field: [panic, body, imports], the text and the imports the field adds.
\* field.Names[0] of a field without names is an index out of range.
RECURSIVE GenField(_, _, _, _)
GenField(k, StructName, field, imports) ==
    IF k > Len(genMethods) THEN [panic |-> FALSE, body |-> <<>>, imports |-> <<>>]
    ELSE LET tagKey == genMethods[k]
             methodNamesText == tag_Lookup(field.Tag, tagKey).value
             hasTag == tag_Lookup(field.Tag, tagKey).hasTag
             rest == GenField(k + 1, StructName, field, imports)
         IN  IF ~hasTag THEN rest
             ELSE IF Len(field.Names) = 0
             THEN [panic |-> TRUE, body |-> <<>>, imports |-> <<>>]
             ELSE [panic |-> rest.panic,
                   body |-> ExecuteAll(tagKey, StructName,
                                methodNames(tagKey, methodNamesText, FieldNameOf(field)),
                                field.Type, FieldNameOf(field)) \o rest.body,
                   imports |-> ImportsForType(field.Type, imports) \o rest.imports]

\* One iteration of `for _, field := range structType.Fields.List`.
ScanOneField(StructName, field, imports) ==
    IF field.Tag = NoTag THEN [panic |-> FALSE, body |-> <<>>, imports |-> <<>>]
    ELSE GenField(1, StructName, field, imports)

(***************************************************************************)
(* The order of the scan, fmtImports, the output template and the          *)
(* formatter.                                                              *)
(***************************************************************************)
\* a < b for keys that are sequences of strings, compared one string after
\* the other.
RECURSIVE KeyLess(_, _)
KeyLess(a, b) ==
    IF a = <<>> \/ b = <<>> THEN FALSE
    ELSE IF Head(a) # Head(b) THEN StrLess(Head(a), Head(b))
    ELSE KeyLess(Tail(a), Tail(b))

\* Insertion of x into the sorted sequence s of [key, val], after the
\* elements not larger than x (a stable insertion sort, which is what
\* sort.Strings and sort.Slice do on the short slices of the model).
RECURSIVE InsertSorted(_, _)
InsertSorted(x, s) ==
    IF s = <<>> THEN <<x>>
    ELSE IF KeyLess(x.key, Head(s).key) THEN <<x>> \o s
    ELSE <<Head(s)>> \o InsertSorted(x, Tail(s))

RECURSIVE SortKeyed(_)
SortKeyed(s) ==
    IF s = <<>> THEN <<>>
    ELSE InsertSorted(s[Len(s)], SortKeyed(SubSeq(s, 1, Len(s) - 1)))

Vals(s) == [i \in 1..Len(s) |-> s[i].val]

\* sort.Strings(sortedFileNameList)
sort_Strings(names) ==
    Vals(SortKeyed([i \in 1..Len(names) |-> [key |-> <<names[i]>>, val |-> names[i]]]))

\* The fields of the struct types declared by one file, in source order,
\* each with its file and its struct: what the loops over file.Decls,
\* decl.Specs and structType.Fields.List visit.
RECURSIVE FieldItems(_, _, _)
FieldItems(fname, StructName, fields) ==
    IF fields = <<>> THEN <<>>
    ELSE <<[file |-> fname, StructName |-> StructName, field |-> Head(fields)]>>
             \o FieldItems(fname, StructName, Tail(fields))

RECURSIVE SpecItems(_, _)
SpecItems(fname, specs) ==
    IF specs = <<>> THEN <<>>
    ELSE (IF Head(specs).Type.kind = "StructType"
          THEN FieldItems(fname, Head(specs).Name, Head(specs).Type.Fields)
          ELSE <<>>) \o SpecItems(fname, Tail(specs))

RECURSIVE DeclItems(_, _)
DeclItems(fname, decls) ==
    IF decls = <<>> THEN <<>>
    ELSE (IF Head(decls).kind = "GenDecl" /\ Head(decls).Tok = "TYPE"
          THEN SpecItems(fname, Head(decls).Specs)
          ELSE <<>>) \o DeclItems(fname, Tail(decls))

\* The fields Run visits for package pkg, files in the order of names.
RECURSIVE Items(_, _)
Items(pkg, names) ==
    IF names = <<>> THEN <<>>
    ELSE DeclItems(Head(names), pkg.Files[Head(names)].Decls)
             \o Items(pkg, Tail(names))

\* sort.Slice(group, func(i, j) { return group[i].Path.Value < group[j].Path.Value })
SortByPathValue(group) ==
    Vals(SortKeyed([i \in 1..Len(group) |-> [key |-> <<group[i].Path>>, val |-> group[i]]]))

\* len(strings.Split(pkg.Path.Value, "/")) < 3 && !strings.Contains(pkg.Path.Value, ".")
IsShortPath(imp) ==
    Len(strings_Split(imp.Path, "/")) < 3 /\ ~strings_Contains(imp.Path, ".")

\* The text fmtImports returns for no import.
NoImports == <<>>

\* fmtImports(pkgs, fset): the import block as its two groups, each the
\* printed specs in order; a group ends with a blank line.
fmtImports(pkgs) ==
    IF Len(pkgs) = 0 THEN NoImports
    ELSE <<SortByPathValue(SelectSeq(pkgs, IsShortPath)),
           SortByPathValue(SelectSeq(pkgs, LAMBDA imp : ~IsShortPath(imp)))>>

\* The output template executed with the four values.
OutTemplate(GeneratorName, PackageName, ImportPackages, Body) ==
    [GeneratorName |-> GeneratorName, PackageName |-> PackageName,
     ImportPackages |-> ImportPackages, Body |-> Body]

\* Whether s is a Go identifier: a letter or underscore, then letters,
\* digits and underscores.
RECURSIVE IdentTail(_, _)
IdentTail(s, i) ==
    IF i > Len(s) THEN TRUE
    ELSE LET r == DecodeRune(s, i)
         IN  /\ \/ unicode_IsLetter(r)
                \/ r = <<"_">>
                \/ (i > 1 /\ Len(r) = 1 /\ r[1] \in Digits)
             /\ IdentTail(s, i + RuneWidth(s, i))

IsIdentifier(s) == s # <<>> /\ IdentTail(s, 1)

\* ast.SortImports on one run of import specs: sorted by path, then by
\* name, a spec equal to its successor dropped.
ImportName(imp) == IF imp.Name = NoName THEN <<>> ELSE imp.Name

RECURSIVE Collapse(_)
Collapse(specs) ==
    IF Len(specs) < 2 THEN specs
    ELSE IF specs[1] = specs[2] THEN Collapse(Tail(specs))
    ELSE <<specs[1]>> \o Collapse(Tail(specs))

SortImports(group) ==
    Collapse(Vals(SortKeyed([i \in 1..Len(group) |->
        [key |-> <<strings_Trim(group[i].Path, "\""), ImportName(group[i])>>,
         val |-> group[i]]])))

\* The error format.Source returns for text that does not parse.
FormatError == "format.Source: syntax error"

\* format.Source(out.Bytes()): an error when a generated method name is no
\* identifier, else the unit with each import group sorted and collapsed.
format_Source(out) ==
    IF \E i \in 1..Len(out.Body) : ~IsIdentifier(out.Body[i].Name)
    THEN [err |-> FormatError]
    ELSE [err |-> "nil",
          str |-> [out EXCEPT !.ImportPackages =
                      IF out.ImportPackages = NoImports THEN NoImports
                      ELSE <<SortImports(out.ImportPackages[1]),
                             SortImports(out.ImportPackages[2])>>]]

(***************************************************************************)
(* Run.                                                                    *)
(*   targetDir        what parser.ParseDir returns for the directory:      *)
(*                    [err, pkgMap]                                        *)
(*   newWriter        the caller's function, by package name: whether the  *)
(*                    writer it returns is an io.Closer and whether its    *)
(*                    Write succeeds                                       *)
(*   generatorName    option.generatorName after the options are applied   *)
(*   pc               the position in Run                                  *)
(*   todo             the packages `range pkgMap` has not yet yielded      *)
(*   cur              the package of the current iteration                 *)
(*   sortedFileNameList, body, importPackages, str   the locals so named   *)
(*   cursor           the next field of the current package to visit       *)
(*   deferred         the stack of deferred closer.Close() calls           *)
(*   events           the calls made on newWriter and on the writers       *)
(*   result           what Run returns, or the panic that ends it          *)
(***************************************************************************)
VARIABLES targetDir, newWriter, generatorName, pc, todo, cur,
          sortedFileNameList, cursor, body, importPackages, str,
          deferred, events, result

vars == <<targetDir, newWriter, generatorName, pc, todo, cur,
          sortedFileNameList, cursor, body, importPackages, str,
          deferred, events, result>>

inputs == <<targetDir, newWriter, generatorName>>

locals == <<sortedFileNameList, cursor, body, importPackages, str>>

pkgMap == targetDir.pkgMap

NoPkg == <<>>

Running == [kind |-> "running"]

ReturnNil == [kind |-> "nil"]

ReturnErr(p, cause) == [kind |-> "error", pkg |-> p, cause |-> cause]

Panic(p, cause) == [kind |-> "panic", pkg |-> p, cause |-> cause]

IndexOutOfRange == "index out of range: field.Names[0]"

\* The orders in which a map range can yield the keys S.
Enumerations(S) ==
    {e \in [1..Cardinality(S) -> S] : \A i, j \in 1..Cardinality(S) : e[i] = e[j] => i = j}

CurItems == Items(pkgMap[cur], sortedFileNameList)

\* parser.ParseDir(...) and `if err != nil { return err }`
ParseDir ==
    /\ pc = "ParseDir"
    /\ IF targetDir.err
       THEN /\ result' = ReturnErr(NoPkg, "ParseDir")
            /\ pc' = "return"
            /\ todo' = {}
       ELSE /\ result' = result
            /\ pc' = "range"
            /\ todo' = DOMAIN pkgMap
    /\ UNCHANGED <<inputs, cur, locals, deferred, events>>

\* `for _, pkg := range pkgMap` yields a package, in any order; the file
\* names are collected in the order of the map range and sorted.
RangePackage ==
    /\ pc = "range"
    /\ \E p \in todo :
         \E enum \in Enumerations(DOMAIN pkgMap[p].Files) :
            /\ cur' = p
            /\ todo' = todo \ {p}
            /\ sortedFileNameList' = sort_Strings(enum)
    /\ body' = <<>>
    /\ importPackages' = <<>>
    /\ cursor' = 1
    /\ pc' = "fields"
    /\ UNCHANGED <<inputs, str, deferred, events, result>>

\* One field of the current package: the body of the loop over
\* structType.Fields.List.
ScanField ==
    /\ pc = "fields"
    /\ cursor <= Len(CurItems)
    /\ LET item == CurItems[cursor]
           got == ScanOneField(item.StructName, item.field,
                               pkgMap[cur].Files[item.file].Imports)
       IN  IF got.panic
           THEN /\ result' = Panic(cur, IndexOutOfRange)
                /\ pc' = "return"
                /\ UNCHANGED <<cursor, body, importPackages>>
           ELSE /\ body' = body \o got.body
                /\ importPackages' = importPackages \o got.imports
                /\ cursor' = cursor + 1
                /\ UNCHANGED <<pc, result>>
    /\ UNCHANGED <<inputs, todo, cur, sortedFileNameList, str, deferred, events>>

\* SkipPackage with the fault that an empty body is rendered and written
\* like any other.
SkipPackage_Written ==
    /\ pc = "fields"
    /\ cursor > Len(CurItems)
    /\ body = <<>>
    /\ str' = OutTemplate(generatorName, pkgMap[cur].Name,
                          fmtImports(importPackages), body)
    /\ pc' = "newWriter"
    /\ UNCHANGED <<inputs, todo, cur, sortedFileNameList, cursor, body,
                   importPackages, deferred, events, result>>

\* `if body.Len() == 0 { continue }`
SkipPackage ==
    /\ pc = "fields"
    /\ cursor > Len(CurItems)
    /\ body = <<>>
    /\ pc' = "range"
    /\ UNCHANGED <<inputs, todo, cur, locals, deferred, events, result>>

\* FormatUnit with the fault that the formatter's error is dropped and
\* the unformatted text is written.
FormatUnit_Swallowed ==
    /\ pc = "fields"
    /\ cursor > Len(CurItems)
    /\ body # <<>>
    /\ str' = OutTemplate(generatorName, pkgMap[cur].Name,
                          fmtImports(importPackages), body)
    /\ pc' = "newWriter"
    /\ UNCHANGED <<inputs, todo, cur, sortedFileNameList, cursor, body,
                   importPackages, deferred, events, result>>

\* The output template and format.Source, with `return err`.
FormatUnit ==
    /\ pc = "fields"
    /\ cursor > Len(CurItems)
    /\ body # <<>>
    /\ LET out == OutTemplate(generatorName, pkgMap[cur].Name,
                              fmtImports(importPackages), body)
           res == format_Source(out)
       IN  IF res.err # "nil"
           THEN /\ result' = ReturnErr(cur, res.err)
                /\ pc' = "return"
                /\ str' = str
           ELSE /\ str' = res.str
                /\ pc' = "newWriter"
                /\ result' = result
    /\ UNCHANGED <<inputs, todo, cur, sortedFileNameList, cursor, body,
                   importPackages, deferred, events>>

\* NewWriter with the fault that the Close of the writer is not deferred.
NewWriter_NoDefer ==
    /\ pc = "newWriter"
    /\ events' = Append(events, [op |-> "newWriter", pkg |-> cur])
    /\ pc' = "Write"
    /\ UNCHANGED <<inputs, todo, cur, locals, deferred, result>>

\* writer := newWriter(pkg), and the deferred Close of a writer that is an
\* io.Closer.
NewWriter ==
    /\ pc = "newWriter"
    /\ events' = Append(events, [op |-> "newWriter", pkg |-> cur])
    /\ deferred' = IF newWriter[cur].closer THEN Append(deferred, cur) ELSE deferred
    /\ pc' = "Write"
    /\ UNCHANGED <<inputs, todo, cur, locals, result>>

\* writer.Write(str), with `return err`.
Write ==
    /\ pc = "Write"
    /\ events' = Append(events, [op |-> "Write", pkg |-> cur, data |-> str])
    /\ IF newWriter[cur].writeOK
       THEN pc' = "range" /\ result' = result
       ELSE pc' = "return" /\ result' = ReturnErr(cur, "Write")
    /\ UNCHANGED <<inputs, todo, cur, locals, deferred>>

\* `return nil` after the last package.
Return ==
    /\ pc = "range"
    /\ todo = {}
    /\ result' = ReturnNil
    /\ pc' = "return"
    /\ UNCHANGED <<inputs, todo, cur, locals, deferred, events>>

\* The deferred calls run last in, first out, when Run returns or panics.
RunDeferred ==
    /\ pc = "return"
    /\ deferred # <<>>
    /\ events' = Append(events, [op |-> "Close", pkg |-> deferred[Len(deferred)]])
    /\ deferred' = SubSeq(deferred, 1, Len(deferred) - 1)
    /\ UNCHANGED <<inputs, pc, todo, cur, locals, result>>

\* Run has returned (or the panic has left it).
Finish ==
    /\ pc = "return"
    /\ deferred = <<>>
    /\ pc' = "done"
    /\ UNCHANGED <<inputs, todo, cur, locals, deferred, events, result>>

(***************************************************************************)
(* The inputs of Run: the directories, writers and options of the model.   *)
(***************************************************************************)
MaxNameLen == 3

MaxTagLen == 5

MaxFields == 2

MaxFiles == 2

MaxPkgs == 2

\* The strings over the bytes A of at most n bytes.
Strings(A, n) == UNION {[1..k -> A] : k \in 0..n}

RECURSIVE ValidUTF8From(_, _)
ValidUTF8From(s, i) ==
    IF i > Len(s) THEN TRUE
    ELSE /\ ~(s[i] \in HighBytes /\ RuneWidth(s, i) = 1)
         /\ ValidUTF8From(s, i + RuneWidth(s, i))

\* The field names of the model: the identifiers of at most MaxNameLen
\* bytes over a few ASCII letters, a digit and e-acute (C3 A9).
FieldNames ==
    {n \in Strings({"i", "d", "u", "P", "8", "C3", "A9"}, MaxNameLen) :
        ValidUTF8From(n, 1) /\ IsIdentifier(n)}

\* The tag values of the model.
TagValues == Strings({"A", "B", ","}, MaxTagLen)

int == <<"i","n","t">>

\* The name of the j-th thing of a kind: x1, y1, S1, p1, f1 ...
Numbered(c, j) == <<c, DigitSeq[j + 1]>>

StructType(fields) == [kind |-> "StructType", Fields |-> fields]

\* A file that declares a function, a variable, a type that is no struct
\* and the struct name with the fields.
File(imports, name, fields) ==
    [Imports |-> imports,
     Decls |-> << [kind |-> "FuncDecl"],
                  [kind |-> "GenDecl", Tok |-> "VAR", Specs |-> <<>>],
                  [kind |-> "GenDecl", Tok |-> "TYPE",
                   Specs |-> << [Name |-> <<"N">>, Type |-> [kind |-> "Ident"]],
                                [Name |-> name, Type |-> StructType(fields)] >>] >>]

OneFile(file) == (<<"a">> :> file)

Package(name, files) == [Name |-> name, Files |-> files]

OnePackage(files) == (<<"p">> :> Package(<<"p">>, files))

Writer(closer, writeOK) == [closer |-> closer, writeOK |-> writeOK]

DefaultGeneratorName == "go-genaccessor"

\* The state at the call of Run for a directory.
Start(dir, nw, gen) ==
    /\ targetDir = dir
    /\ newWriter = nw
    /\ generatorName = gen
    /\ pc = "ParseDir"
    /\ todo = {}
    /\ cur = NoPkg
    /\ sortedFileNameList = <<>>
    /\ cursor = 1
    /\ body = <<>>
    /\ importPackages = <<>>
    /\ str = OutTemplate(gen, <<>>, NoImports, <<>>)
    /\ deferred = <<>>
    /\ events = <<>>
    /\ result = Running

Parsed(pm) == [err |-> FALSE, pkgMap |-> pm]

\* A directory the parser rejects.
InitUnparsable ==
    Start([err |-> TRUE, pkgMap |-> <<>>], <<>>, DefaultGeneratorName)

\* One field of every name, with an empty getter and/or setter value.
InitNames ==
    \E n \in FieldNames :
      \E t \in {Tag(Value(<<>>), Absent), Tag(Absent, Value(<<>>)),
                Tag(Value(<<>>), Value(<<>>))} :
        Start(Parsed(OnePackage(OneFile(
                  File(<<>>, <<"S">>, <<[Names |-> <<n>>, Type |-> int, Tag |-> t]>>)))),
              (<<"p">> :> Writer(TRUE, TRUE)), DefaultGeneratorName)

\* One field declaration of one or two names, with every tag value.
InitTags ==
    \E v \in TagValues :
      \E t \in {Tag(Value(v), Absent), Tag(Absent, Value(v)),
                Tag(Value(v), Value(<<>>))} :
        \E names \in {<<<<"x">>>>, <<<<"x">>, <<"y">>>>} :
          Start(Parsed(OnePackage(OneFile(
                    File(<<>>, <<"S">>, <<[Names |-> names, Type |-> int, Tag |-> t]>>)))),
                (<<"p">> :> Writer(TRUE, TRUE)), DefaultGeneratorName)

\* The declarations of the j-th field of a struct: embedded, one name or
\* two, with no tag, a tag without a recognized key, or recognized keys.
FieldsAt(j) ==
    {[Names |-> names, Type |-> int, Tag |-> t] :
        names \in {<<>>, <<Numbered("x", j)>>, <<Numbered("x", j), Numbered("y", j)>>},
        t \in {NoTag, Tag(Absent, Absent), Tag(Value(<<>>), Absent),
               Tag(Absent, Value(<<>>)), Tag(Value(<<"A", ",", "B">>), Value(<<>>))}}

FieldLists(n) ==
    UNION {{fs \in [1..k -> UNION {FieldsAt(j) : j \in 1..k}] :
                \A j \in 1..k : fs[j] \in FieldsAt(j)} : k \in 0..n}

\* One struct of at most MaxFields field declarations.
InitFields ==
    \E fs \in FieldLists(MaxFields) :
      Start(Parsed(OnePackage(OneFile(File(<<>>, <<"S">>, fs)))),
            (<<"p">> :> Writer(TRUE, TRUE)), DefaultGeneratorName)

\* The qualifiers of a type expression as Go reads it: the identifiers
\* (letters, digits, underscores) directly followed by a dot.
RECURSIVE QualifiersFrom(_, _, _)
QualifiersFrom(s, i, ident) ==
    IF i > Len(s) THEN {}
    ELSE LET r == DecodeRune(s, i)
             w == RuneWidth(s, i)
         IN  IF unicode_IsLetter(r) \/ r = <<"_">> \/ (Len(r) = 1 /\ r[1] \in Digits)
             THEN QualifiersFrom(s, i + w, ident \o r)
             ELSE (IF r = <<".">> /\ ident # <<>> THEN {ident} ELSE {})
                      \cup QualifiersFrom(s, i + w, <<>>)

Qualifiers(typeText) == QualifiersFrom(typeText, 1, <<>>)

\* The name a file refers to an imported package by: the alias, or the
\* package's own name, which for the packages of the model is the last
\* element of its path.
LocalName(imp) ==
    IF imp.Name = NoName THEN path_Base(strings_Trim(imp.Path, "\"")) ELSE imp.Name

\* The imports of the model: "t", "x/t2", u "t", "g.io/q/v", a_t "x/y/w".
ImportCatalog ==
    { [Name |-> NoName, Path |-> Quote(<<"t">>)],
      [Name |-> NoName, Path |-> Quote(<<"x","/","t","2">>)],
      [Name |-> <<"u">>, Path |-> Quote(<<"t">>)],
      [Name |-> NoName, Path |-> Quote(<<"g",".","i","o","/","q","/","v">>)],
      [Name |-> <<"a","_","t">>, Path |-> Quote(<<"x","/","y","/","w">>)] }

\* The field types of the model: int, t.T, t2.T, u.T, v.T, a_t.T,
\* map[t.T]v.T.
TypeCatalog ==
    { int, <<"t",".","T">>, <<"t","2",".","T">>, <<"u",".","T">>,
      <<"v",".","T">>, <<"a","_","t",".","T">>,
      <<"m","a","p","[","t",".","T","]","v",".","T">> }

ImportLists ==
    {<<>>} \cup {<<a>> : a \in ImportCatalog}
           \cup {pair \in {<<a, b>> : a \in ImportCatalog, b \in ImportCatalog} :
                     pair[1] # pair[2]}

TypedFieldsAt(j) ==
    {[Names |-> <<Numbered("x", j)>>, Type |-> ty, Tag |-> t] :
        ty \in TypeCatalog,
        t \in {NoTag, Tag(Value(<<>>), Absent), Tag(Value(<<>>), Value(<<>>))}}

TypedFieldLists ==
    {<<f>> : f \in TypedFieldsAt(1)}
        \cup {<<f, g>> : f \in TypedFieldsAt(1), g \in TypedFieldsAt(2)}

\* A file that compiles: no two imports under one name, every qualifier an
\* import of the file, every import used.
Compiles(imports, fields) ==
    LET used == UNION {Qualifiers(fields[j].Type) : j \in 1..Len(fields)}
    IN  /\ \A i, j \in 1..Len(imports) :
              LocalName(imports[i]) = LocalName(imports[j]) => i = j
        /\ used = {LocalName(imports[i]) : i \in 1..Len(imports)}

\* One file of one or two fields of imported types.
InitImports ==
    \E imports \in ImportLists :
      \E fs \in TypedFieldLists :
        /\ Compiles(imports, fs)
        /\ Start(Parsed(OnePackage(OneFile(File(imports, <<"S">>, fs)))),
                 (<<"p">> :> Writer(TRUE, TRUE)), DefaultGeneratorName)

\* The contents of the j-th file of a package: no tagged field, or a tagged
\* field of a type imported as "t", as u "t" or as "g.io/q/v".
FilesAt(j) ==
    { File(<<>>, Numbered("S", j),
           <<[Names |-> <<Numbered("x", j)>>, Type |-> int, Tag |-> NoTag]>>),
      File(<<[Name |-> NoName, Path |-> Quote(<<"t">>)]>>, Numbered("S", j),
           <<[Names |-> <<Numbered("x", j)>>, Type |-> <<"t",".","T">>,
              Tag |-> Tag(Value(<<>>), Absent)]>>),
      File(<<[Name |-> <<"u">>, Path |-> Quote(<<"t">>)]>>, Numbered("S", j),
           <<[Names |-> <<Numbered("x", j)>>, Type |-> <<"u",".","T">>,
              Tag |-> Tag(Value(<<>>), Value(<<>>))]>>),
      File(<<[Name |-> NoName, Path |-> Quote(<<"g",".","i","o","/","q","/","v">>)]>>,
           Numbered("S", j),
           <<[Names |-> <<Numbered("x", j)>>, Type |-> <<"v",".","T">>,
              Tag |-> Tag(Absent, Value(<<>>))]>>) }

\* One package of at most MaxFiles files, f1, f2, ...
InitFiles ==
    \E k \in 1..MaxFiles :
      \E fs \in [1..k -> UNION {FilesAt(j) : j \in 1..k}] :
        \E gen \in {DefaultGeneratorName, "custom"} :
          /\ \A j \in 1..k : fs[j] \in FilesAt(j)
          /\ Start(Parsed(OnePackage(
                      [n \in {Numbered("f", j) : j \in 1..k} |->
                          fs[CHOOSE j \in 1..k : Numbered("f", j) = n]])),
                   (<<"p">> :> Writer(TRUE, TRUE)), gen)

\* The packages of a directory of several: one without a tagged field, one
\* with accessors, one whose tag names no identifier ("A,"), one with a
\* tagged embedded field.
PackageFiles ==
    { OneFile(File(<<>>, <<"S">>,
          <<[Names |-> <<<<"x">>>>, Type |-> int, Tag |-> Tag(Absent, Absent)]>>)),
      OneFile(File(<<>>, <<"S">>,
          <<[Names |-> <<<<"x">>>>, Type |-> int, Tag |-> Tag(Value(<<>>), Value(<<>>))]>>)),
      OneFile(File(<<>>, <<"S">>,
          <<[Names |-> <<<<"x">>>>, Type |-> int, Tag |-> Tag(Value(<<"A", ",">>), Absent)]>>)),
      OneFile(File(<<>>, <<"S">>,
          <<[Names |-> <<>>, Type |-> <<"T">>, Tag |-> Tag(Value(<<>>), Absent)]>>)) }

Writers == {Writer(TRUE, TRUE), Writer(TRUE, FALSE), Writer(FALSE, TRUE)}

\* A directory of at most MaxPkgs packages, p1, p2, ...
InitPackages ==
    \E k \in 0..MaxPkgs :
      \E fs \in [1..k -> PackageFiles] :
        \E ws \in [1..k -> Writers] :
          Start(Parsed([n \in {Numbered("p", i) : i \in 1..k} |->
                           Package(n, fs[CHOOSE i \in 1..k : Numbered("p", i) = n])]),
                [n \in {Numbered("p", i) : i \in 1..k} |->
                           ws[CHOOSE i \in 1..k : Numbered("p", i) = n]],
                DefaultGeneratorName)

Next ==
    \/ ParseDir
    \/ RangePackage
    \/ ScanField
    \/ SkipPackage
    \/ FormatUnit
    \/ NewWriter
    \/ Write
    \/ Return
    \/ RunDeferred
    \/ Finish

Init ==
    \/ InitUnparsable
    \/ InitNames
    \/ InitTags
    \/ InitFields
    \/ InitImports
    \/ InitFiles
    \/ InitPackages

Spec == Init /\ [][Next]_vars

(***************************************************************************)
(* What the properties below speak of.                                     *)
(***************************************************************************)
Keys == {"getter", "setter"}

\* The fields of package pkg, whatever the order of its files.
AllItems(pkg) ==
    Items(pkg, sort_Strings(CHOOSE e \in Enumerations(DOMAIN pkg.Files) : TRUE))

\* The fields of the current package the scan has dealt with.
Visited == IF cur = NoPkg THEN <<>> ELSE SubSeq(CurItems, 1, cursor - 1)

HasKey(field, key) == field.Tag # NoTag /\ field.Tag[key].hasTag

\* The methods in text for key `key` of field `name` of struct `struct`.
MethodsIn(text, struct, name, key) ==
    SelectSeq(text, LAMBDA m :
        /\ m.Recv.type = struct
        /\ m.Stmt.field = name
        /\ m.Stmt.op = (IF key = "getter" THEN "return" ELSE "assign"))

MethodNamesIn(text, struct, name, key) ==
    LET ms == MethodsIn(text, struct, name, key)
    IN  [i \in 1..Len(ms) |-> ms[i].Name]

EventsOf(p, op) == {i \in 1..Len(events) : events[i].op = op /\ events[i].pkg = p}

Mentioned(p) == \E i \in 1..Len(events) : events[i].pkg = p

Aborted == result.kind \in {"error", "panic"}

(***************************************************************************)
(* C7.  Default names.                                                     *)
(***************************************************************************)
\* The leading run of lower-case letters of s, in bytes.
RECURSIVE LowerRunLen(_, _)
LowerRunLen(s, i) ==
    IF i > Len(s) \/ ~unicode_IsLower(DecodeRune(s, i)) THEN i - 1
    ELSE LowerRunLen(s, i + RuneWidth(s, i))

\* The upper-camel form as the claim defines it: the leading run of lower-
\* case letters in upper case when it is an initialism, else the first
\* letter in upper case, the rest unchanged.
UpperCamelForm(s) ==
    LET n == LowerRunLen(s, 1)
        w == RuneWidth(s, 1)
    IN  IF SubSeq(s, 1, n) \in commonInitialisms
        THEN strings_ToUpper(SubSeq(s, 1, n)) \o SubSeq(s, n + 1, Len(s))
        ELSE unicode_ToUpper(DecodeRune(s, 1)) \o SubSeq(s, w + 1, Len(s))

DefaultNameForm(key, name) ==
    IF key = "getter" THEN UpperCamelForm(name)
    ELSE <<"S","e","t">> \o UpperCamelForm(name)

\* C7: for every visited field (by its first name) whose getter or setter
\* value is empty, exactly one method of that kind is generated, named by
\* the upper-camel form of the field name ("Set" in front for a setter).
C7_DefaultNames ==
    \A i \in 1..Len(Visited) :
      LET it == Visited[i]
      IN  \A key \in Keys :
            (/\ it.field.Names # <<>>
             /\ HasKey(it.field, key)
             /\ it.field.Tag[key].value = <<>>)
            => MethodNamesIn(body, it.StructName, it.field.Names[1], key)
                   = <<DefaultNameForm(key, it.field.Names[1])>>

(***************************************************************************)
(* C8.  Explicit names.                                                    *)
(***************************************************************************)
\* The methods ms differ in nothing but their names.
SameButName(ms) ==
    \A i, j \in 1..Len(ms) : [ms[i] EXCEPT !.Name = <<>>] = [ms[j] EXCEPT !.Name = <<>>]

Distinct(seq) == \A i, j \in 1..Len(seq) : seq[i] = seq[j] => i = j

\* The visited field declarations with a name and a non-empty value for key.
Listed(it, key) ==
    /\ it.field.Names # <<>>
    /\ HasKey(it.field, key)
    /\ it.field.Tag[key].value # <<>>

C10_EveryNamedField ==
    \A i \in 1..Len(Visited) :
      LET it == Visited[i]
      IN  \A k \in 1..Len(it.field.Names) :
            \A key \in Keys :
              HasKey(it.field, key)
                <=> MethodsIn(body, it.StructName, it.field.Names[k], key) # <<>>

\* C3: no embedded field makes Run panic or fail.
C3_EmbeddedSkipped ==
    (Aborted /\ result.cause = IndexOutOfRange)
        => CurItems[cursor].field.Names # <<>>

(***************************************************************************)
(* C1 and C2.  The import block.                                           *)
(***************************************************************************)
\* The specs of an import block, in order.
BlockSpecs(block) == IF block = NoImports THEN <<>> ELSE block[1] \o block[2]

BlockPaths(block) == {BlockSpecs(block)[i].Path : i \in 1..Len(BlockSpecs(block))}

\* The paths of the imports that the qualifiers of the type of field it
\* refer to, in the file of the field.
PathsOfField(pkg, it) ==
    LET imports == pkg.Files[it.file].Imports
    IN  {imports[i].Path : i \in {j \in 1..Len(imports) :
                                     LocalName(imports[j]) \in Qualifiers(it.field.Type)}}

\* The packages the generated type expressions of package pkg refer to:
\* those of the fields that yield a method.
Referenced(pkg) ==
    UNION {PathsOfField(pkg, AllItems(pkg)[i]) :
             i \in {j \in 1..Len(AllItems(pkg)) :
                      /\ AllItems(pkg)[j].field.Names # <<>>
                      /\ \E key \in Keys : HasKey(AllItems(pkg)[j].field, key)}}

\* C1: the import block of every unit written holds exactly the packages
\* that the types of the fields with generated methods refer to.
C1_ImportMinimality ==
    \A i \in 1..Len(events) :
      events[i].op = "Write"
        => BlockPaths(events[i].data.ImportPackages) = Referenced(pkgMap[events[i].pkg])

\* The scan of the current package is over and its text is about to be
\* rendered.
AtRender == pc = "fields" /\ cursor > Len(CurItems) /\ body # <<>>

\* C2: no path stands twice in the import block rendered for a package.
C2_Deduplicated ==
    AtRender =>
      LET specs == BlockSpecs(fmtImports(importPackages))
      IN  \A i, j \in 1..Len(specs) : specs[i].Path = specs[j].Path => i = j

\* No path stands twice in the import block of a unit handed to a writer.
WrittenBlockDeduplicated ==
    \A k \in 1..Len(events) :
      events[k].op = "Write" =>
        LET specs == BlockSpecs(events[k].data.ImportPackages)
        IN  \A i, j \in 1..Len(specs) : specs[i].Path = specs[j].Path => i = j

(***************************************************************************)
(* C4, C5, C6.  The calls on newWriter and on the writers.                 *)
(***************************************************************************)
\* No field of the package asks for a method.
NoRequest(pkg) ==
    \A i \in 1..Len(AllItems(pkg)) :
      \A key \in Keys : ~HasKey(AllItems(pkg)[i].field, key)

\* C4: a package no field of which asks for a method gets no newWriter
\* call, no Write and no Close, is the cause of no error, and the loop goes
\* on after it.
C4_EmptyPackageSkipped ==
    \A p \in DOMAIN pkgMap :
      NoRequest(pkgMap[p]) =>
        /\ ~Mentioned(p)
        /\ Aborted => result.pkg # p
        /\ cur = p => /\ body = <<>>
                      /\ pc \in {"fields", "range", "return", "done"}
                      /\ pc \in {"return", "done"} => result = ReturnNil

\* A package without requests has been passed and the next one written.
C4_Witness ==
    \E p \in DOMAIN pkgMap :
      /\ NoRequest(pkgMap[p])
      /\ p \notin todo
      /\ cur # p
      /\ EventsOf(cur, "Write") # {}

\* C5: the writer of a package is closed at most once, only if it is an
\* io.Closer, only after its one Write; and once Run is over, exactly once
\* if it is an io.Closer.
C5_CloseOnce ==
    \A p \in DOMAIN pkgMap :
      /\ Cardinality(EventsOf(p, "Close")) <= 1
      /\ Cardinality(EventsOf(p, "Write")) <= 1
      /\ \A c \in EventsOf(p, "Close") :
            /\ newWriter[p].closer
            /\ \E w \in EventsOf(p, "Write") : w < c
      /\ (pc = "done" /\ EventsOf(p, "newWriter") # {} /\ newWriter[p].closer)
            => Cardinality(EventsOf(p, "Close")) = 1

\* Run is over with the error of the failed Write of a later package, and
\* the writers of both packages were closed.
C5_Witness ==
    /\ pc = "done"
    /\ \E p, q \in DOMAIN pkgMap :
         /\ p # q
         /\ result = ReturnErr(q, "Write")
         /\ EventsOf(p, "Close") # {}
         /\ EventsOf(q, "Close") # {}

\* The text of the current package does not parse.
Malformed == \E i \in 1..Len(body) : ~IsIdentifier(body[i].Name)

\* C6: newWriter is called and Write issued for a package only when its
\* whole text has been generated and formatted; when the formatter fails,
\* or the generation panics, that is how Run ends, with no call for the
\* package.
C6_NoPartialOutput ==
    /\ \A i \in 1..Len(events) :
         events[i].op = "newWriter" =>
           /\ i < Len(events) \/ (cur = events[i].pkg /\ pc = "Write")
           /\ cur = events[i].pkg =>
                /\ cursor > Len(CurItems)
                /\ ~Malformed
                /\ format_Source(OutTemplate(generatorName, pkgMap[cur].Name,
                       fmtImports(importPackages), body)) = [err |-> "nil", str |-> str]
    /\ \A i \in 1..Len(events) :
         events[i].op = "Write" =>
           /\ i > 1 /\ events[i-1] = [op |-> "newWriter", pkg |-> events[i].pkg]
           /\ \A k \in 1..Len(events[i].data.Body) :
                 IsIdentifier(events[i].data.Body[k].Name)
           /\ cur = events[i].pkg => events[i].data = str
    /\ (cur # NoPkg /\ Malformed /\ (pc # "fields" \/ Aborted))
         => /\ result = ReturnErr(cur, FormatError)
            /\ ~Mentioned(cur)
    /\ (Aborted /\ result.pkg # NoPkg /\ result.cause # "Write")
         => ~Mentioned(result.pkg)
    /\ Aborted => pc \in {"return", "done"}

\* Run is over with the formatter's error for a package that got no call,
\* after another package was written.
C6_Witness ==
    /\ pc = "done"
    /\ result = ReturnErr(cur, FormatError)
    /\ ~Mentioned(cur)
    /\ events # <<>>

(***************************************************************************)
(* C9.  The output as a function of the input.                             *)
(***************************************************************************)
RECURSIVE ScanAll(_, _)
ScanAll(pkg, items) ==
    IF items = <<>> THEN [panic |-> FALSE, body |-> <<>>, imports |-> <<>>]
    ELSE LET got == ScanOneField(Head(items).StructName, Head(items).field,
                                 pkg.Files[Head(items).file].Imports)
             rest == ScanAll(pkg, Tail(items))
         IN  IF got.panic THEN got
             ELSE [panic |-> rest.panic, body |-> got.body \o rest.body,
                   imports |-> got.imports \o rest.imports]

\* What Run writes when the maps yield the packages in the order ps and the
\* files of each in the order of their names.
RECURSIVE RunInOrder(_)
RunInOrder(ps) ==
    IF ps = <<>> THEN {}
    ELSE LET pkg == pkgMap[Head(ps)]
             got == ScanAll(pkg, AllItems(pkg))
             res == format_Source(OutTemplate(generatorName, pkg.Name,
                                              fmtImports(got.imports), got.body))
         IN  IF got.panic THEN {}
             ELSE IF got.body = <<>> THEN RunInOrder(Tail(ps))
             ELSE IF res.err # "nil" THEN {}
             ELSE {[pkg |-> Head(ps), data |-> res.str]}
                    \cup (IF newWriter[Head(ps)].writeOK THEN RunInOrder(Tail(ps)) ELSE {})

Written == {[pkg |-> events[i].pkg, data |-> events[i].data] :
               i \in {j \in 1..Len(events) : events[j].op = "Write"}}

\* C9: what a run has written when it returns is what the run over the
\* same input writes that takes the packages in the order of their names.
C9_Deterministic ==
    (pc = "done" /\ result.kind # "panic") =>
      Written = RunInOrder(sort_Strings(CHOOSE e \in Enumerations(DOMAIN pkgMap) : TRUE))

\* What a run that ends without error has written is what the run in the
\* order of the names writes.
WrittenDeterminedWhenNil ==
    (pc = "done" /\ result = ReturnNil) =>
      Written = RunInOrder(sort_Strings(CHOOSE e \in Enumerations(DOMAIN pkgMap) : TRUE))

====
